---- MODULE Spec2Model ----
(***************************************************************************)
(* A model of the wind-potential analyzer (src/vietnamwind.py) and of the  *)
(* scripts that drive it (src/demo.py, src/interactive_map.py).            *)
(*                                                                         *)
(* Geometry is kept on a lattice.  The map is one row of unit squares      *)
(* ("columns"); a geometry is a set of columns; a point has doubled        *)
(* integer coordinates, so that an odd x lies inside a column, an even x   *)
(* on the line between two columns, y = 1 inside the row and y = 0 or 2 on *)
(* its lower or upper edge.  The geometry libraries (shapely, geopandas,   *)
(* scipy, rasterstats, numpy.random) are modelled by what they return on   *)
(* this lattice; what they return on damaged data (an exception, an        *)
(* invalid polygon) is a property of the data set that is read.            *)
(***************************************************************************)
EXTENDS Integers, Sequences, FiniteSets, TLC

VARIABLES
    env,               \* the files on disk and the installed libraries
    catchments,        \* self.catchments       (<<>> is None)
    demdata,           \* self.demdata          (<<>> is None)
    selected_region,   \* self.selected_region  (<<>> is None)
    province_data,     \* self.province_data    (<<>> is None)
    voronoi_polygons,  \* self.voronoi_polygons (<<>> is None)
    rng,               \* the state of numpy's global generator
    nextOid,           \* identity of the next data frame object created
    files,             \* output files written so far
    last,              \* what the latest analyzer call did
    memo,              \* one earlier create_voronoi_polygons call, kept for comparison
    prog,              \* the script being run ("api": methods called freely)
    pc,                \* the script's position
    opts,              \* the script's command line / menu choices
    status,            \* "running", "returned" or "crashed" (uncaught exception)
    trace,             \* the analyzer methods the script has called, in order
    said,              \* the messages the analyzer has printed
    shown              \* the messages the script has printed, in order

vars == <<env, catchments, demdata, selected_region, province_data,
          voronoi_polygons, rng, nextOid, files, last, memo,
          prog, pc, opts, status, trace, said, shown>>

-----------------------------------------------------------------------------
(* Bounds of the model.                                                    *)

W == 3          \* columns of the map: 0 .. W-1
MaxN == 3       \* largest num_points tried
ScriptPoints == 2   \* --points given on the command line of a script
DemoPoints == 2     \* num_points of demo.py, which asks for 100 cells of the real map
MaxCalls == 6       \* calls made on one analyzer by a program that is not a script
MaxCells == 101     \* cells of a tessellation handed to calculate_wind_statistics

(* Program constants.                                                      *)

oversample_factor == 5
max_attempts == 10
num_control_points == 16
extension_factor == 3
batch_size == 50
DefaultRandomState == 42

-----------------------------------------------------------------------------
(* Small helpers.                                                          *)

None == <<>>
Some(v) == <<v>>
IsNone(o) == o = <<>>
Val(o) == o[1]

NaN == -1

Min(S) == CHOOSE x \in S : \A y \in S : x <= y
Max(S) == CHOOSE x \in S : \A y \in S : x >= y

RECURSIVE SumOver(_, _)
SumOver(f, S) ==
    IF S = {} THEN 0
    ELSE LET x == CHOOSE y \in S : TRUE IN f[x] + SumOver(f, S \ {x})

RECURSIVE SqrtUp(_, _)
SqrtUp(n, k) == IF k * k >= n THEN k ELSE SqrtUp(n, k + 1)

\* int(np.ceil(np.sqrt(n))) and the rounded-up square root of a length
ISqrtCeil(n) == SqrtUp(n, 0)

Range(s) == {s[i] : i \in 1..Len(s)}

-----------------------------------------------------------------------------
(* The lattice and the geometry library.                                   *)

Cols == 0..(W - 1)        \* where boundaries and the raster live
Plane == (0 - 1)..W       \* one more column on either side

NullGeom == [cells |-> {}, valid |-> FALSE, null |-> TRUE]
Geom(S) == [cells |-> S, valid |-> TRUE, null |-> FALSE]

\* shapely: geom.is_empty
is_empty(g) == g.cells = {}

\* shapely: geom.contains(Point(x, y)); a point on the border is not contained
ColsAt(x) == IF x % 2 = 1 THEN {(x - 1) \div 2} ELSE {(x \div 2) - 1, x \div 2}
contains(g, p) == p.y = 1 /\ ColsAt(p.x) \subseteq g.cells

\* geopandas: GeoDataFrame.total_bounds, as <<minx, miny, maxx, maxy>>
total_bounds(rows) ==
    LET all == UNION {rows[i].geometry.cells : i \in 1..Len(rows)}
    IN  <<2 * Min(all), 0, 2 * (Max(all) + 1), 2>>

\* shapely: geom.buffer(d), d in thousandths of a lattice unit.  The row is 2
\* lattice units high, so a shrink by a whole unit or more leaves nothing; a
\* smaller shrink removes no lattice point that is strictly inside.
buffer(g, d) ==
    IF d <= 0 - 1000 THEN [g EXCEPT !.cells = {}]
    ELSE g

\* shapely.ops.unary_union
unary_union(rows) == Geom(UNION {rows[i].geometry.cells : i \in 1..Len(rows)})

\* shapely: a.intersection(b); GEOS raises or returns an invalid polygon on
\* damaged input, which the fault of the data set decides.
intersection(g, u, invalid) == [cells |-> g.cells \cap u.cells, valid |-> ~invalid, null |-> FALSE]

-----------------------------------------------------------------------------
(* Data sets.  A boundary data set (a GeoDataFrame) is a sequence of rows  *)
(* with a name and a geometry, a coordinate system, the object identity    *)
(* that Python's "is" compares, and what GEOS does with its geometries.    *)

Faults == {"none", "union", "union_clip", "isect", "invalid"}

Interval(lo, hi) == lo..hi

Intervals == {Interval(lo, hi) : lo \in Cols, hi \in Cols} \ {{}}

\* names are sequences of letters; 1..9 lower case, 11..19 the same letters in
\* upper case, 0 a space
NameVN == <<12, 5>>

OneRow(S) == <<[name |-> NameVN, geometry |-> Geom(S)]>>
TwoRows(S, T) == <<[name |-> NameVN, geometry |-> Geom(S)],
                   [name |-> NameVN, geometry |-> Geom(T)]>>

\* one polygon over an interval of columns, or two polygons of one column each
BoundaryRows ==
    {OneRow(S) : S \in Intervals}
    \cup {TwoRows({q[1]}, {q[2]}) : q \in {p \in Cols \X Cols : p[1] < p[2]}}

\* the boundary files: every shape as sound data, two of the shapes as data
\* on which GEOS fails in each way, and one file without coordinate system
FaultyRows == {OneRow(Cols), TwoRows({0}, Cols \ {0, 1})}

BoundaryFiles ==
    {[rows |-> r, crs |-> "EPSG:4326", fault |-> "none"] : r \in BoundaryRows}
    \cup {[rows |-> r, crs |-> "EPSG:4326", fault |-> f] :
            r \in FaultyRows, f \in Faults \ {"none"}}
    \cup {[rows |-> OneRow(Cols), crs |-> "", fault |-> "none"]}

\* the raster: wind speed of each column, in tenths of m/s
Raster == [c \in Cols |-> 40 + 15 * c]

\* the province file: provinces over bands of columns, two of them with
\* names that differ in case only
Province(name, S) == [name |-> name, NAME_1 |-> <<>>, Name |-> <<>>, geometry |-> Geom(S)]

ProvinceRows ==
    <<Province(<<11, 2>>, {0}),
      Province(<<1, 2, 3>>, Cols \ {0}),
      Province(<<3>>, Cols),
      Province(<<13>>, {0})>>

ProvinceFile ==
    [rows |-> ProvinceRows, cols |-> {"name", "geometry"},
     crs |-> "EPSG:4326", fault |-> "none"]

\* province files that keep the names in other columns: a column the file
\* lacks is <<>> in its rows, and each column spells the names its own way
NameColumns == {{"Name"}, {"NAME_1", "Name"}, {"name", "NAME_1", "Name"}, {}}

ProvinceFileWith(cols) ==
    [rows |-> [i \in 1..Len(ProvinceRows) |->
                 [name |-> IF "name" \in cols THEN ProvinceRows[i].name ELSE <<>>,
                  NAME_1 |-> IF "NAME_1" \in cols THEN <<4>> \o ProvinceRows[i].name ELSE <<>>,
                  Name |-> IF "Name" \in cols THEN <<5>> \o ProvinceRows[i].name ELSE <<>>,
                  geometry |-> ProvinceRows[i].geometry]],
     cols |-> cols \cup {"geometry"}, crs |-> "EPSG:4326", fault |-> "none"]

\* the column on which a damaged data set makes GEOS fail
FaultCol(b) == Min(UNION {b.rows[i].geometry.cells : i \in 1..Len(b.rows)})

UnionRaises(b) == b.fault \in {"union", "union_clip"}
ClipRaises(b) == b.fault = "union_clip"
IsectRaises(b, g) == b.fault = "isect" /\ FaultCol(b) \in g.cells
IsectInvalid(b, g) == b.fault = "invalid" /\ FaultCol(b) \in g.cells

-----------------------------------------------------------------------------
(* numpy.random: a generator whose whole state is one number.              *)

RngMod == 4
RngStep == 3

\* np.random.seed(s)
seed(s) == s % RngMod

\* the generator's state after k more draws
Advance(s, k) == (s + k * RngStep) % RngMod

\* np.random.uniform(low, high, size)[k], drawn from state s: low + (high-low)*u
\* with u in [0, 1)
uniform(low, high, s, k) == low + ((high - low) * Advance(s, k)) \div RngMod

-----------------------------------------------------------------------------
(* create_voronoi_polygons, stage 1: the seed points.                      *)

Pt(x, y) == [x |-> x, y |-> y]

AcceptsAnyPoint(rows, p) == TRUE

\* line 388 / 413: any(geom.contains(point_obj) for geom in buffered_boundary.geometry)
Accepts(rows, p) == \E i \in 1..Len(rows) : contains(rows[i].geometry, p)

WantedAlways(pts, n) == TRUE

\* line 384 / 409: the scan of a list of points goes on while points are wanted
Wanted(pts, n) == Len(pts) < n

\* lines 383-389 and 408-414: scan cands from position j on; returns the
\* points kept and the positions that were tested
RECURSIVE Scan(_, _, _, _, _, _)
Scan(pts, tested, cands, j, n, rows) ==
    IF j > Len(cands) \/ ~Wanted(pts, n) THEN [pts |-> pts, tested |-> tested]
    ELSE Scan(IF Accepts(rows, cands[j]) THEN Append(pts, cands[j]) ELSE pts,
              Append(tested, j), cands, j + 1, n, rows)

\* lines 377-380: one round of candidates drawn from generator state s
Candidates(bb, n, s) ==
    LET k == n * oversample_factor
    IN  [j \in 1..k |-> Pt(uniform(bb[1], bb[3], s, j), uniform(bb[2], bb[4], s, k + j))]

\* lines 375-391: the retry loop; progress lists how many points there were
\* when each round began
RECURSIVE RetryLoop(_, _, _, _, _, _, _)
RetryLoop(pts, attempts, s, bb, n, rows, progress) ==
    IF Len(pts) < n /\ attempts < max_attempts
    THEN LET r == Scan(pts, <<>>, Candidates(bb, n, s), 1, n, rows)
         IN  RetryLoop(r.pts, attempts + 1, Advance(s, 2 * n * oversample_factor),
                       bb, n, rows, Append(progress, Len(pts)))
    ELSE [pts |-> pts, attempts |-> attempts, rng |-> s, progress |-> progress]

\* np.linspace(lo, hi, g)
linspace(lo, hi, g) ==
    IF g = 1 THEN <<lo>>
    ELSE [k \in 1..g |-> lo + ((k - 1) * (hi - lo)) \div (g - 1)]

\* lines 401-405: the grid, row by row (np.meshgrid, ravel, column_stack)
GridPoints(bb, n) ==
    LET g == ISqrtCeil(n)
        x == linspace(bb[1], bb[3], g)
        y == linspace(bb[2], bb[4], g)
    IN  [k \in 1..(g * g) |-> Pt(x[((k - 1) % g) + 1], y[((k - 1) \div g) + 1])]

NotSeeded(s, random_state) == s

\* line 358: the generator is seeded with random_state before any draw
SeedGenerator(s, random_state) == seed(random_state)

\* lines 356-420: the whole sampling stage, from generator state s
SamplePoints(bb, n, random_state, s, rows) ==
    LET r == RetryLoop(<<>>, 0, SeedGenerator(s, random_state), bb, n, rows, <<>>)
        short == Len(r.pts) < n
        g == IF short THEN Scan(r.pts, <<>>, GridPoints(bb, n), 1, n, rows)
             ELSE [pts |-> r.pts, tested |-> <<>>]
        cut == IF Len(g.pts) > n THEN SubSeq(g.pts, 1, n) ELSE g.pts
    IN  [points |-> cut,
         attempts |-> r.attempts,
         progress |-> r.progress,
         random_found |-> Len(r.pts),
         found |-> Len(g.pts),
         fallback |-> short,
         grid_size |-> IF short THEN ISqrtCeil(n) * ISqrtCeil(n) ELSE 0,
         grid_tested |-> g.tested,
         rng |-> r.rng]

-----------------------------------------------------------------------------
(* create_voronoi_polygons, stage 2: control points and scipy's Voronoi.   *)

\* 1000 * cos(2 pi k / 16), k = 0..15 (np.linspace(0, 2 pi, 16, endpoint=False))
Cos1000 == <<1000, 924, 707, 383, 0, -383, -707, -924,
             -1000, -924, -707, -383, 0, 383, 707, 924>>
Sin1000(k) == Cos1000[((k + 11) % 16) + 1]

\* lines 424-444: 16 points on a circle around the bounding box, 4 far corners
ControlPoints(bb) ==
    LET width == bb[3] - bb[1]
        height == bb[4] - bb[2]
        cx == (bb[1] + bb[3]) \div 2
        cy == (bb[2] + bb[4]) \div 2
        radius == ISqrtCeil(width * width + height * height) * extension_factor
        circle == [k \in 1..num_control_points |->
                     Pt(cx + (radius * Cos1000[k]) \div 1000,
                        cy + (radius * Sin1000(k)) \div 1000)]
    IN  circle \o
        << Pt(bb[1] - width * extension_factor, bb[2] - height * extension_factor),
           Pt(bb[1] - width * extension_factor, bb[4] + height * extension_factor),
           Pt(bb[3] + width * extension_factor, bb[2] - height * extension_factor),
           Pt(bb[3] + width * extension_factor, bb[4] + height * extension_factor) >>

\* squared distance from a point to the centre of a column
Dist2(p, c) == (p.x - (2 * c + 1)) * (p.x - (2 * c + 1)) + (p.y - 1) * (p.y - 1)

\* the squared distance from each column of the plane to its nearest point
Nearest(all) == [c \in Plane |-> Min({Dist2(all[j], c) : j \in 1..Len(all)})]

\* scipy.spatial.Voronoi: the region of all[i], as the columns of the plane
\* that are at least as near to all[i] as to any other point
VoronoiCells(all, i, nearest) == {c \in Plane : Dist2(all[i], c) = nearest[c]}

\* what vor.regions[vor.point_region[i]] looks like to line 471: a list of
\* vertices ("bounded"), a list holding -1 ("unbounded") or an empty list
\* ("empty"); odd names the generator, if any, for which qhull answers one
\* of the latter two
RegionKind(odd, p) == IF odd.x = p.x THEN odd.kind ELSE "bounded"

\* line 466-468: the regions visited are those of the first
\* num_points_within_boundary generators, the sampled points
VisitedGenerators(points, all) == 1..Len(points)

\* lines 447-489: region_polys and the first data frame; a row's index label
\* and its name are the position of its generator (from 0)
VoronoiFrame(points, bb, odd) ==
    LET all == points \o ControlPoints(bb)
        nearest == Nearest(all)
        keep == {i \in VisitedGenerators(points, all) :
                    RegionKind(odd, all[i]) = "bounded"}
        row(i) == [idx |-> i - 1, name |-> i - 1,
                   geometry |-> Geom(VoronoiCells(all, i, nearest)),
                   wind_mean |-> NaN, wind_std |-> NaN]
        F[i \in 0..Len(all)] ==
            IF i = 0 THEN <<>>
            ELSE IF i \in keep THEN Append(F[i - 1], row(i)) ELSE F[i - 1]
    IN  F[Len(all)]

-----------------------------------------------------------------------------
(* create_voronoi_polygons, stage 3: clipping and cleaning.                *)

\* shapely: geom.area, in columns
area(g) == Cardinality(g.cells)

\* lines 503-516: one cell cut by the union; <<>> when the cut raises (the
\* exception is caught and printed) or leaves nothing
ClipCell(row, u, b) ==
    IF IsectRaises(b, row.geometry) THEN <<>>
    ELSE LET x == intersection(row.geometry, u, IsectInvalid(b, row.geometry))
         IN  IF ~is_empty(x) /\ area(x) > 0
             THEN <<[row EXCEPT !.geometry = x]>>
             ELSE <<>>

\* lines 502-517: clipped_voronoi
RECURSIVE ClipCells(_, _, _, _)
ClipCells(rows, k, u, b) ==
    IF k > Len(rows) THEN <<>>
    ELSE ClipCell(rows[k], u, b) \o ClipCells(rows, k + 1, u, b)

\* line 520: gpd.GeoDataFrame(list of dicts): a fresh index 0..k-1
Reindexed(rows) == [k \in 1..Len(rows) |-> [rows[k] EXCEPT !.idx = k - 1]]

\* gpd.clip(frame, mask): the rows that meet the mask, cut to it, index kept
gpd_clip(rows, u) ==
    LET cut == [k \in 1..Len(rows) |->
                   [rows[k] EXCEPT !.geometry = intersection(rows[k].geometry, u, FALSE)]]
    IN  SelectSeq(cut, LAMBDA r : ~is_empty(r.geometry))

\* lines 530-536: the simple clip, and no clip at all when it raises too
SimpleClip(rows, b) ==
    IF ClipRaises(b) THEN rows
    ELSE gpd_clip(rows, unary_union(b.rows))

NotClipped(rows, b) == rows

\* lines 497-536
Clipped(rows, b) ==
    IF UnionRaises(b) THEN SimpleClip(rows, b)
    ELSE LET cl == ClipCells(rows, 1, unary_union(b.rows), b)
         IN  IF cl # <<>> THEN Reindexed(cl)
             ELSE SimpleClip(rows, b)

\* which of the paths of lines 497-536 was taken
ClipPath(rows, b) ==
    IF UnionRaises(b) THEN (IF ClipRaises(b) THEN "unclipped" ELSE "simple")
    ELSE IF ClipCells(rows, 1, unary_union(b.rows), b) # <<>> THEN "per_cell"
    ELSE IF ClipRaises(b) THEN "unclipped" ELSE "fallback"

\* lines 543-548: rows whose geometry is None, empty or invalid are dropped;
\* the rows that stay keep their index labels
Cleaned(rows) ==
    SelectSeq(rows, LAMBDA r : ~r.geometry.null /\ ~is_empty(r.geometry) /\ r.geometry.valid)

\* lines 305-554 once the boundary is known: everything the method computes.
\* b is the boundary data set, s the generator's state, odd scipy's oddity.
CreateCells(b, n, random_state, s, odd) ==
    LET bb0 == total_bounds(b.rows)
        width == bb0[3] - bb0[1]
        height == bb0[4] - bb0[2]
        buffer_size == 0 - (IF width < height THEN width ELSE height) * 5
        shrunk == [i \in 1..Len(b.rows) |->
                     [b.rows[i] EXCEPT !.geometry = buffer(b.rows[i].geometry, buffer_size)]]
        buffered == IF \E i \in 1..Len(shrunk) : is_empty(shrunk[i].geometry)
                    THEN b.rows ELSE shrunk
        bb == total_bounds(buffered)
        smp == SamplePoints(bb, n, random_state, s, buffered)
        vrows == VoronoiFrame(smp.points, bb, odd)
        out == Cleaned(Clipped(vrows, b))
    IN  [exc |-> IF Len(smp.points) = 0 THEN "ValueError" ELSE "",   \* np.vstack, line 447
         sample |-> smp,
         buffered |-> buffered,
         regions |-> vrows,
         path |-> ClipPath(vrows, b),
         rows |-> out]

-----------------------------------------------------------------------------
(* calculate_wind_statistics.                                              *)

RECURSIVE SqrtDown(_, _)
SqrtDown(n, k) == IF (k + 1) * (k + 1) > n THEN k ELSE SqrtDown(n, k + 1)

\* rasterstats.zonal_stats(geometry, raster, stats=['mean', 'std']) for one
\* geometry: mean and standard deviation of the pixels it covers, in tenths;
\* NaN when it covers none
zonal_stats(g, raster) ==
    LET px == g.cells \cap DOMAIN raster
        n == Cardinality(px)
        sum == SumOver(raster, px)
        sq == SumOver([c \in px |-> raster[c] * raster[c]], px)
    IN  IF n = 0 THEN [mean |-> NaN, std |-> NaN]
        ELSE [mean |-> sum \div n, std |-> SqrtDown(n * sq - sum * sum, 0) \div n]

\* batches cut one row short: iloc[i:i + batch_size - 1]
RECURSIVE ShortBatches(_, _, _)
ShortBatches(rows, i, raster) ==
    LET total_polygons == Len(rows)
        hi == IF i + batch_size - 1 < total_polygons THEN i + batch_size - 1
              ELSE total_polygons
    IN  IF i >= total_polygons THEN <<>>
        ELSE [k \in 1..(hi - i) |-> zonal_stats(rows[i + k].geometry, raster)]
             \o ShortBatches(rows, i + batch_size, raster)

\* lines 581-586: the batches, one zonal_stats call each, results in order
RECURSIVE BatchResults(_, _, _)
BatchResults(rows, i, raster) ==
    LET total_polygons == Len(rows)
        hi == IF i + batch_size < total_polygons THEN i + batch_size ELSE total_polygons
    IN  IF i >= total_polygons THEN <<>>
        ELSE [k \in 1..(hi - i) |-> zonal_stats(rows[i + k].geometry, raster)]
             \o BatchResults(rows, i + batch_size, raster)

\* line 589-593: pd.concat([frame, stats], axis=1).  The statistics frame is
\* labelled 0..k-1; pandas joins the two on their index labels and keeps
\* every label of either: first the frame's rows, then the labels only the
\* statistics have, with no geometry and no name.
ConcatStats(rows, results) ==
    LET labels == {rows[k].idx : k \in 1..Len(rows)}
        stat(l) == IF l + 1 \in 1..Len(results) THEN results[l + 1]
                   ELSE [mean |-> NaN, std |-> NaN]
        left == [k \in 1..Len(rows) |->
                    [rows[k] EXCEPT !.wind_mean = stat(rows[k].idx).mean,
                                    !.wind_std = stat(rows[k].idx).std]]
        only == {l \in 0..(Len(results) - 1) : l \notin labels}
        nth(j) == CHOOSE l \in only : Cardinality({m \in only : m < l}) = j - 1
        extra == [j \in 1..Cardinality(only) |->
                    [idx |-> nth(j), name |-> NaN, geometry |-> NullGeom,
                     wind_mean |-> results[nth(j) + 1].mean,
                     wind_std |-> results[nth(j) + 1].std]]
    IN  left \o extra

\* lines 576-593 on a frame
WithStatistics(frame, raster) ==
    LET results == BatchResults(frame.rows, 0, raster)
    IN  [frame EXCEPT !.rows = ConcatStats(frame.rows, results),
                      !.cols = IF results = <<>> THEN @
                               ELSE @ \cup {"wind_mean", "wind_std"}]

-----------------------------------------------------------------------------
(* Names and output files.                                                 *)

Lower(name) == [i \in 1..Len(name) |-> IF name[i] > 10 THEN name[i] - 10 ELSE name[i]]

\* name.lower().replace(' ', '_'); 10 stands for the underscore
Slug(name) == [i \in 1..Len(name) |-> IF Lower(name)[i] = 0 THEN 10 ELSE Lower(name)[i]]

\* needle in hay
Substring(needle, hay) ==
    \E i \in 1..(Len(hay) + 1) :
        /\ i + Len(needle) - 1 <= Len(hay)
        /\ SubSeq(hay, i, i + Len(needle) - 1) = needle

\* ord(c): a space comes before the upper case letters and these before the
\* lower case ones
Ord(c) == IF c = 0 THEN 0 ELSE IF c > 10 THEN c - 10 ELSE c + 10

\* a < b for Python strings
RECURSIVE StrLess(_, _)
StrLess(a, b) ==
    IF Len(b) = 0 THEN FALSE
    ELSE IF Len(a) = 0 THEN TRUE
    ELSE IF Ord(Head(a)) # Ord(Head(b)) THEN Ord(Head(a)) < Ord(Head(b))
    ELSE StrLess(Tail(a), Tail(b))

\* sorted(names): each name goes after the names that are not greater
RECURSIVE Insert(_, _)
Insert(x, sortedNames) ==
    IF Len(sortedNames) = 0 THEN <<x>>
    ELSE IF StrLess(x, Head(sortedNames)) THEN <<x>> \o sortedNames
    ELSE <<Head(sortedNames)>> \o Insert(x, Tail(sortedNames))

InFileOrder(names) == names

RECURSIVE sorted(_)
sorted(names) ==
    IF Len(names) = 0 THEN <<>>
    ELSE Insert(names[Len(names)], sorted(SubSeq(names, 1, Len(names) - 1)))

\* an output file: what it is and the region suffix in its name
File(kind, region) == [kind |-> kind, region |-> region]

-----------------------------------------------------------------------------
(* The analyzer's methods.  Each is an action on the analyzer's fields,    *)
(* the generator, the files and the messages; last records the call, the   *)
(* exception it ended with ("" when it returned) and what it computed.     *)

RegionChosenWhenSelected == ~IsNone(selected_region)

\* selected_region is not None and selected_region is not self.catchments
RegionChosen ==
    /\ ~IsNone(selected_region)
    /\ (IsNone(catchments) \/ Val(selected_region).oid # Val(catchments).oid)

RegionSuffix == IF RegionChosen THEN Slug(Val(selected_region).rows[1].name) ELSE <<>>

Raises(op, exc) ==
    /\ last' = [op |-> op, exc |-> exc]
    /\ UNCHANGED <<catchments, demdata, selected_region, province_data,
                   voronoi_polygons, rng, nextOid, files, memo, said>>

\* WindPotentialAnalyzer()
new_analyzer ==
    /\ catchments' = None
    /\ demdata' = None
    /\ voronoi_polygons' = None
    /\ selected_region' = None
    /\ province_data' = None
    /\ last' = [op |-> "new", exc |-> ""]
    /\ UNCHANGED <<rng, nextOid, files, memo, said>>

LoadsWithoutRaster(boundary_file, wind_file) ==
    IF IsNone(boundary_file) THEN Raises("load_data", "IOError")
    ELSE /\ catchments' = Some([rows |-> Val(boundary_file).rows,
                                crs |-> Val(boundary_file).crs,
                                fault |-> Val(boundary_file).fault,
                                oid |-> nextOid])
         /\ nextOid' = nextOid + 1
         /\ demdata' = wind_file
         /\ last' = [op |-> "load_data", exc |-> ""]
         /\ UNCHANGED <<selected_region, province_data, voronoi_polygons,
                        rng, files, memo, said>>

\* load_data(boundary_file, wind_file); a missing file makes gpd.read_file or
\* rasterio.open raise
load_data(boundary_file, wind_file) ==
    IF IsNone(boundary_file) THEN Raises("load_data", "IOError")
    ELSE /\ catchments' = Some([rows |-> Val(boundary_file).rows,
                                crs |-> Val(boundary_file).crs,
                                fault |-> Val(boundary_file).fault,
                                oid |-> nextOid])
         /\ nextOid' = nextOid + 1
         /\ demdata' = IF IsNone(wind_file) THEN demdata ELSE wind_file
         /\ last' = [op |-> "load_data",
                     exc |-> IF IsNone(wind_file) THEN "IOError" ELSE ""]
         /\ UNCHANGED <<selected_region, province_data, voronoi_polygons,
                        rng, files, memo, said>>

\* lines 86-89: the 'name' column of the province frame
WithNameColumn(f) ==
    IF "name" \notin f.cols /\ "NAME_1" \in f.cols
    THEN [f EXCEPT !.cols = @ \cup {"name"},
                   !.rows = [i \in 1..Len(f.rows) |-> [f.rows[i] EXCEPT !.name = f.rows[i].NAME_1]]]
    ELSE IF "name" \notin f.cols /\ "Name" \in f.cols
    THEN [f EXCEPT !.cols = @ \cup {"name"},
                   !.rows = [i \in 1..Len(f.rows) |-> [f.rows[i] EXCEPT !.name = f.rows[i].Name]]]
    ELSE f

\* load_provinces(province_file)
load_provinces(province_file) ==
    IF IsNone(province_file) THEN Raises("load_provinces", "IOError")
    ELSE LET f == WithNameColumn(Val(province_file))
         IN  /\ province_data' = Some(f)
             /\ last' = [op |-> "load_provinces",
                         exc |-> IF "name" \in f.cols THEN "" ELSE "KeyError"]    \* line 91
             /\ said' = IF "name" \in f.cols THEN said \cup {"loaded provinces"} ELSE said
             /\ UNCHANGED <<catchments, demdata, selected_region, voronoi_polygons,
                            rng, nextOid, files, memo>>

SubstringRows(rows, region_name) ==
    SelectSeq(rows, LAMBDA r : Substring(Lower(region_name), Lower(r.name)))

\* lines 117-121: the rows whose name is region_name, else those that hold it
MatchingRows(rows, region_name) ==
    LET exact == SelectSeq(rows, LAMBDA r : Lower(r.name) = Lower(region_name))
    IN  IF Len(exact) = 0
        THEN SelectSeq(rows, LAMBDA r : Substring(Lower(region_name), Lower(r.name)))
        ELSE exact

\* select_region(region_name); <<>> is None
select_region(region_name) ==
    IF IsNone(region_name)
    THEN /\ selected_region' = catchments
         /\ last' = [op |-> "select_region", exc |-> ""]
         /\ said' = said \cup {"using entire boundary"}
         /\ UNCHANGED <<catchments, demdata, province_data, voronoi_polygons,
                        rng, nextOid, files, memo>>
    ELSE IF IsNone(province_data) THEN Raises("select_region", "ValueError")
    ELSE IF "name" \notin Val(province_data).cols THEN Raises("select_region", "KeyError")
    ELSE LET region == MatchingRows(Val(province_data).rows, Val(region_name))
         IN  IF Len(region) = 0 THEN Raises("select_region", "ValueError")
             ELSE /\ selected_region' = Some([rows |-> <<region[1]>>,
                                              crs |-> Val(province_data).crs,
                                              fault |-> Val(province_data).fault,
                                              oid |-> nextOid])
                  /\ nextOid' = nextOid + 1
                  /\ last' = [op |-> "select_region", exc |-> "",
                              region_name |-> Val(region_name), matches |-> region]
                  /\ said' = said \cup {"selected"}
                        \cup (IF Len(region) > 1 THEN {"multiple matches"} ELSE {})
                  /\ UNCHANGED <<catchments, demdata, province_data, voronoi_polygons,
                                 rng, files, memo>>

\* list_available_regions()
list_available_regions ==
    IF IsNone(province_data) THEN Raises("list_available_regions", "ValueError")
    ELSE IF "name" \notin Val(province_data).cols
    THEN Raises("list_available_regions", "KeyError")
    ELSE /\ last' = [op |-> "list_available_regions", exc |-> "",
                     ret |-> sorted([i \in 1..Len(Val(province_data).rows) |->
                                       Val(province_data).rows[i].name])]
         /\ UNCHANGED <<catchments, demdata, selected_region, province_data,
                        voronoi_polygons, rng, nextOid, files, memo, said>>

\* line 309-312: boundary.crs is set on the boundary object itself, which
\* self.catchments and self.selected_region may both name
WithCrs(field, oid) ==
    IF ~IsNone(field) /\ Val(field).oid = oid /\ Val(field).crs = ""
    THEN Some([Val(field) EXCEPT !.crs = "EPSG:4326"])
    ELSE field

\* create_voronoi_polygons(num_points, random_state)
create_voronoi_polygons(num_points, random_state) ==
    IF IsNone(catchments) THEN Raises("create_voronoi_polygons", "ValueError")
    ELSE \E boundary \in {IF ~IsNone(selected_region) THEN Val(selected_region)
                          ELSE Val(catchments)} :
         \E r \in {CreateCells(boundary, num_points, random_state, rng, env.qhull_odd)} :
         \E call \in {[op |-> "create_voronoi_polygons", exc |-> r.exc,
                        boundary |-> [rows |-> boundary.rows, fault |-> boundary.fault],
                        num_points |-> num_points, random_state |-> random_state,
                        reseeded |-> rng # seed(random_state), again |-> ~IsNone(memo),
                        sample |-> r.sample, buffered |-> r.buffered,
                        regions |-> r.regions, path |-> r.path, rows |-> r.rows]} :
             /\ catchments' = WithCrs(catchments, boundary.oid)
             /\ selected_region' = WithCrs(selected_region, boundary.oid)
             /\ rng' = r.sample.rng
             /\ voronoi_polygons' =
                    IF r.exc # "" THEN voronoi_polygons
                    ELSE Some([rows |-> r.rows, cols |-> {"geometry", "name"}])
             /\ last' = call
             /\ memo' = IF IsNone(memo)
                        THEN Some([boundary |-> call.boundary, num_points |-> num_points,
                                   random_state |-> random_state, exc |-> r.exc,
                                   points |-> r.sample.points, rows |-> r.rows])
                        ELSE memo
             /\ said' = said \cup (IF r.path = "unclipped" /\ r.exc = ""
                                   THEN {"continuing without clipping"} ELSE {})
             /\ UNCHANGED <<demdata, province_data, nextOid, files>>

\* calculate_wind_statistics(wind_file); self.demdata.name is read once per
\* batch, so an analyzer without raster fails only when there is a cell
calculate_wind_statistics(wind_file) ==
    IF IsNone(voronoi_polygons) THEN Raises("calculate_wind_statistics", "ValueError")
    ELSE LET dem == IF ~IsNone(wind_file) /\ IsNone(demdata) THEN wind_file ELSE demdata
             frame == Val(voronoi_polygons)
         IN  /\ demdata' = dem
             /\ IF IsNone(dem) /\ Len(frame.rows) > 0
                THEN /\ last' = [op |-> "calculate_wind_statistics", exc |-> "AttributeError"]
                     /\ UNCHANGED voronoi_polygons
                ELSE /\ voronoi_polygons' =
                            IF IsNone(dem) THEN voronoi_polygons
                            ELSE Some(WithStatistics(frame, Val(dem)))
                     /\ last' = [op |-> "calculate_wind_statistics", exc |-> "",
                                 before |-> frame.rows, raster |-> dem,
                                 results |-> IF IsNone(dem) THEN <<>>
                                             ELSE BatchResults(frame.rows, 0, Val(dem))]
             /\ UNCHANGED <<catchments, selected_region, province_data,
                            rng, nextOid, files, memo, said>>

\* lines 622-634: the cells whose mean wind speed passes the threshold (both
\* branches, the loop over more than 100 cells and the mask, test the same)
HighPotential(rows, min_wind_speed) ==
    SelectSeq(rows, LAMBDA r : r.wind_mean # NaN /\ r.wind_mean > min_wind_speed)

HasCells == ~IsNone(voronoi_polygons)

\* self.voronoi_polygons is not None and 'wind_mean' in its columns
HasStatistics ==
    /\ ~IsNone(voronoi_polygons)
    /\ "wind_mean" \in Val(voronoi_polygons).cols

\* the region named in titles and messages; None stands for the titles of
\* the whole of Vietnam
Title == IF RegionChosen THEN Some(Val(selected_region).rows[1].name) ELSE None

\* filter_high_potential_areas(min_wind_speed)
filter_high_potential_areas(min_wind_speed) ==
    IF ~HasStatistics THEN Raises("filter_high_potential_areas", "ValueError")
    ELSE /\ last' = [op |-> "filter_high_potential_areas", exc |-> "",
                     min |-> min_wind_speed,
                     ret |-> HighPotential(Val(voronoi_polygons).rows, min_wind_speed)]
         /\ said' = said \cup {"filtering"}
         /\ UNCHANGED <<catchments, demdata, selected_region, province_data,
                        voronoi_polygons, rng, nextOid, files, memo>>

\* the library call, if any, that raises in this run of the plotting code
PlotFaults == {"none", "wd_mask", "wd_draw", "hp_mask", "hp_label", "hp_draw",
               "iv_cell", "iv_hp", "iv_draw", "iv_html", "iv_write", "fm_build",
               "fm_copy"}

\* visualize_wind_data(save_path): only the raster mask (lines 182-194) is
\* inside a try
visualize_wind_data(save_path) ==
    IF IsNone(demdata) \/ IsNone(catchments) THEN Raises("visualize_wind_data", "ValueError")
    ELSE IF env.plot_fault = "wd_draw" THEN Raises("visualize_wind_data", "PlotError")
    ELSE /\ said' = said \cup (IF RegionChosen /\ env.plot_fault = "wd_mask"
                               THEN {"cannot mask wind data"} ELSE {})
         /\ files' = files \cup (IF IsNone(save_path) THEN {} ELSE {Val(save_path)})
         /\ last' = [op |-> "visualize_wind_data", exc |-> "", title |-> Title]
         /\ UNCHANGED <<catchments, demdata, selected_region, province_data,
                        voronoi_polygons, rng, nextOid, memo>>

\* save_results(output_dir, file_prefix, min_wind_speed)
save_results(min_wind_speed) ==
    IF IsNone(voronoi_polygons) THEN Raises("save_results", "ValueError")
    ELSE LET all_kml == File("all_kml", RegionSuffix)
             high_kml == File("high_kml", RegionSuffix)
             csv == File("statistics_csv", RegionSuffix)
         IN  /\ files' = files \cup (IF HasStatistics THEN {all_kml, high_kml, csv}
                                     ELSE {all_kml})
             /\ last' = [op |-> "save_results",
                         exc |-> IF HasStatistics THEN "" ELSE "ValueError"]   \* line 683
             /\ said' = said \cup {"saving results"}
             /\ UNCHANGED <<catchments, demdata, selected_region, province_data,
                            voronoi_polygons, rng, nextOid, memo>>

\* visualize_high_potential_areas(min_wind_speed, save_path): the mask and the
\* labels are inside a try, the rest is not
visualize_high_potential_areas(min_wind_speed, save_path) ==
    IF ~HasStatistics THEN Raises("visualize_high_potential_areas", "ValueError")
    ELSE LET high_potential == HighPotential(Val(voronoi_polygons).rows, min_wind_speed)
         IN  IF Len(high_potential) = 0
             THEN /\ said' = said \cup {"no areas found"}
                  /\ last' = [op |-> "visualize_high_potential_areas", exc |-> "",
                              min |-> min_wind_speed, shown |-> <<>>]
                  /\ UNCHANGED <<catchments, demdata, selected_region, province_data,
                                 voronoi_polygons, rng, nextOid, files, memo>>
             ELSE IF env.plot_fault = "hp_draw"
             THEN Raises("visualize_high_potential_areas", "PlotError")
             ELSE /\ said' = said
                        \cup (IF RegionChosen /\ env.plot_fault = "hp_mask"
                              THEN {"cannot mask wind data"} ELSE {})
                        \cup (IF env.plot_fault = "hp_label"
                              THEN {"error processing geometry"} ELSE {})
                  /\ files' = files \cup (IF IsNone(save_path) THEN {} ELSE {Val(save_path)})
                  /\ last' = [op |-> "visualize_high_potential_areas", exc |-> "",
                              min |-> min_wind_speed, shown |-> high_potential,
                              title |-> Title]
                  /\ UNCHANGED <<catchments, demdata, selected_region, province_data,
                                 voronoi_polygons, rng, nextOid, memo>>

\* export_detailed_statistics(output_dir, file_prefix, min_wind_speed); line
\* 927 adds the wind_category column to self.voronoi_polygons
export_detailed_statistics(min_wind_speed) ==
    IF ~HasStatistics THEN Raises("export_detailed_statistics", "ValueError")
    ELSE /\ voronoi_polygons' =
                Some([Val(voronoi_polygons) EXCEPT !.cols = @ \cup {"wind_category"}])
         /\ files' = files \cup {File("detailed_summary_txt", RegionSuffix),
                                 File("detailed_statistics_csv", RegionSuffix)}
         /\ last' = [op |-> "export_detailed_statistics", exc |-> "", title |-> Title]
         /\ said' = said \cup {"detailed statistics exported"}
         /\ UNCHANGED <<catchments, demdata, selected_region, province_data,
                        rng, nextOid, memo>>

\* line 1050: rows without geometry are dropped from self.voronoi_polygons
WithGeometry(frame) ==
    [frame EXCEPT !.rows = SelectSeq(@, LAMBDA r : ~r.geometry.null)]

\* create_interactive_visualization(min_wind_speed, save_path, html_output)
create_interactive_visualization(min_wind_speed, save_path, html_output) ==
    IF ~env.mpld3
    THEN /\ said' = said \cup {"mpld3 is not installed"}
         /\ last' = [op |-> "create_interactive_visualization", exc |-> "", ret |-> None,
                     branch |-> "no_mpld3"]
         /\ UNCHANGED <<catchments, demdata, selected_region, province_data,
                        voronoi_polygons, rng, nextOid, files, memo>>
    ELSE IF ~HasStatistics THEN Raises("create_interactive_visualization", "ValueError")
    ELSE LET high_potential == HighPotential(Val(voronoi_polygons).rows, min_wind_speed)
             clean == SelectSeq(high_potential, LAMBDA r : ~r.geometry.null)
         IN  IF Len(high_potential) = 0 \/ Len(clean) = 0
             THEN /\ said' = said \cup {"no areas found"}
                  /\ last' = [op |-> "create_interactive_visualization", exc |-> "",
                              min |-> min_wind_speed, shown |-> <<>>,
                              ret |-> None, branch |-> "no_cells"]
                  /\ UNCHANGED <<catchments, demdata, selected_region, province_data,
                                 voronoi_polygons, rng, nextOid, files, memo>>
             ELSE /\ voronoi_polygons' = Some(WithGeometry(Val(voronoi_polygons)))
                  /\ UNCHANGED <<catchments, demdata, selected_region, province_data,
                                 rng, nextOid, memo>>
                  /\ IF env.plot_fault = "iv_draw"
                     THEN /\ last' = [op |-> "create_interactive_visualization",
                                      exc |-> "PlotError"]
                          /\ UNCHANGED <<files, said>>
                     ELSE LET png == IF IsNone(save_path) THEN {} ELSE {Val(save_path)}
                              failed == env.plot_fault \in {"iv_html", "iv_write"}
                              written == ~failed /\ ~IsNone(html_output)
                          IN  /\ files' = files \cup png
                                    \cup (IF written THEN {Val(html_output)} ELSE {})
                              /\ said' = said
                                    \cup (IF env.plot_fault = "iv_cell"
                                          THEN {"error drawing polygon"} ELSE {})
                                    \cup (IF env.plot_fault = "iv_hp"
                                          THEN {"error plotting high potential areas"} ELSE {})
                                    \cup (IF failed THEN {"error creating interactive HTML"}
                                          ELSE {})
                                    \cup (IF written THEN {"interactive HTML file saved"}
                                          ELSE {})
                              /\ last' = [op |-> "create_interactive_visualization",
                                          exc |-> "", min |-> min_wind_speed,
                                          shown |-> clean, title |-> Title,
                                          ret |-> IF failed THEN None ELSE Some("html"),
                                          branch |-> IF failed THEN "no_html" ELSE "html"]

-----------------------------------------------------------------------------
(* The scripts.  A script is the list of the calls it makes when nothing   *)
(* fails, each with the try block around it: catch "all" continues after   *)
(* skipping the rest of the try block, catch "ValueError" prints and       *)
(* returns, no catch lets the exception end the script.                    *)

I(call) == [call |-> call, n |-> 0, rs |-> DefaultRandomState, name |-> None,
            min |-> 0, png |-> None, html |-> None, wind |-> FALSE,
            catch |-> "", skip |-> 0, msg |-> ""]

Say(msg) == [I("print") EXCEPT !.msg = msg]
Create(n) == [I("create_voronoi_polygons") EXCEPT !.n = n]
Select(name) == [I("select_region") EXCEPT !.name = Some(name)]
VizWind(sfx) == [I("visualize_wind_data") EXCEPT !.png = Some(File("wind_data_png", sfx))]
Save(min) == [I("save_results") EXCEPT !.min = min]
VizHigh(min, sfx) == [I("visualize_high_potential_areas") EXCEPT
                        !.min = min, !.png = Some(File("high_potential_png", sfx))]
Export(min) == [I("export_detailed_statistics") EXCEPT !.min = min]
Interactive(min, sfx) == [I("create_interactive_visualization") EXCEPT
                            !.min = min, !.html = Some(File("interactive_html", sfx))]
Try(ins, catch, skip, msg) == [ins EXCEPT !.catch = catch, !.skip = skip, !.msg = msg]

Exists(file) == ~IsNone(file)

NeverNeedsProvinces(o) == FALSE

\* lines 1253-1254: if args.region: if not args.provinces:
NeedsProvinces(o) == ~IsNone(o.region) /\ ~o.provinces

PlotsAlways(o, ins) == <<ins>>

\* lines 1261, 1280, 1296: if not args.no_plots:
Plots(o, ins) == IF o.no_plots THEN <<>> ELSE <<ins>>

\* vietnamwind.main, lines 1223-1306 (output_dir.mkdir makes a directory, no file)
VwMain(o, e) ==
    LET sfx == IF IsNone(o.region) THEN <<>> ELSE Slug(Val(o.region))
        head == <<I("new"), I("load_data")>>
        prov == IF o.provinces THEN <<I("load_provinces")>> ELSE <<>>
        sel == IF IsNone(o.region) THEN <<>> ELSE <<Select(Val(o.region))>>
        plot(ins) == Plots(o, ins)
    IN  IF o.provinces /\ o.list_regions
        THEN head \o prov \o <<I("list_available_regions"), Say("available regions")>>
        ELSE IF NeedsProvinces(o)
        THEN head \o <<Say("need provinces file")>>
        ELSE head \o prov \o sel
             \o plot(VizWind(sfx))
             \o <<Create(o.points), I("calculate_wind_statistics"), Save(o.min)>>
             \o plot(VizHigh(o.min, sfx))
             \o <<Export(o.min)>>
             \o plot(Interactive(o.min, sfx))
             \o <<Say("analysis completed")>>

\* demo.list_available_regions / interactive_map.list_available_regions: an
\* analyzer of its own; <<>> is returned when the province file is missing
ListRegions(e) ==
    IF ~Exists(e.provinces) THEN <<I("new"), Say("province file not found")>>
    ELSE <<I("new"), I("load_provinces"), I("list_available_regions"),
           Say("available regions")>>

\* the try block around create_interactive_visualization in demo.py
DemoInteractive(sfx, skip) ==
    <<Try(Interactive(50, sfx), "all", skip, "cannot create interactive plot")>>

AggregatesBeforeTessellation ==
    <<I("new"), I("load_data"), VizWind(<<>>), I("calculate_wind_statistics"),
      Create(DemoPoints), Save(60), VizHigh(50, <<>>), Export(60)>>

\* demo.analyze_entire_vietnam, lines 67-113
AnalyzeEntireVietnam ==
    <<I("new"), I("load_data"), VizWind(<<>>), Create(DemoPoints),
      I("calculate_wind_statistics"), Save(60), VizHigh(50, <<>>), Export(60)>>
    \o DemoInteractive(<<>>, 1)
    \o <<Say("created interactive map"), Say("analysis completed")>>

\* demo.analyze_specific_region, lines 115-185
AnalyzeSpecificRegion(region_name, e) ==
    LET sfx == Slug(region_name)
        try(ins) == Try(ins, "ValueError", 0, "error")
    IN  IF ~Exists(e.provinces)
        THEN <<I("new"), I("load_data"), Say("province file not found")>>
        ELSE <<I("new"), I("load_data"), I("load_provinces"),
               try(Select(region_name)), try(VizWind(sfx)), try(Create(DemoPoints)),
               try(I("calculate_wind_statistics")), try(Save(60)),
               try(VizHigh(50, sfx)), try(Export(60))>>
             \o DemoInteractive(sfx, 1)
             \o <<Say("created interactive map"), Say("analysis completed")>>

\* demo.main option 4, lines 249-301
DemoOption4(o, e) ==
    LET sfx == IF o.sub_choice = "2" THEN Slug(Val(o.region)) ELSE <<>>
        tail == <<I("calculate_wind_statistics")>>
                \o DemoInteractive(sfx, 2)
                \o <<Say("created interactive map"), Say("instructions")>>
    IN  IF ~Exists(e.provinces) THEN ListRegions(e)
        ELSE ListRegions(e) \o <<I("new"), I("load_data")>> \o
             (IF o.sub_choice = "2"
              THEN <<I("load_provinces"), Select(Val(o.region)), Create(DemoPoints)>>
              ELSE <<Create(DemoPoints)>>)
             \o tail

\* demo.check_input_files and demo.main, lines 33-65 and 211-305
DemoMain(o, e) ==
    IF ~Exists(e.boundary) \/ ~Exists(e.wind)
    THEN <<Say("input data files not found")>>
    ELSE (IF e.mpld3 THEN <<>> ELSE <<Say("mpld3 is not installed")>>) \o
         (CASE o.choice = "1" -> AnalyzeEntireVietnam
            [] o.choice = "2" ->
                 IF ~Exists(e.provinces) THEN ListRegions(e)
                 ELSE ListRegions(e) \o AnalyzeSpecificRegion(Val(o.region), e)
            [] o.choice = "3" -> ListRegions(e)
            [] o.choice = "4" -> DemoOption4(o, e)
            [] o.choice = "0" -> <<Say("exiting")>>
            [] OTHER -> <<Say("invalid choice")>>)

\* interactive_map.create_interactive_map, lines 63-514
CreateInteractiveMap(region_name, num_points, e) ==
    LET sfx == IF IsNone(region_name) THEN <<>> ELSE Slug(Val(region_name))
        region == IF IsNone(region_name) THEN <<>>
                  ELSE <<I("load_provinces"),
                         Try(Select(Val(region_name)), "ValueError", 0, "error")>>
    IN  IF ~e.folium THEN <<Say("folium not available")>>
        ELSE IF ~IsNone(region_name) /\ ~Exists(e.provinces)
        THEN <<I("new"), I("load_data"), Say("province file not found")>>
        ELSE <<I("new"), I("load_data")>> \o region
             \o <<Create(num_points), I("calculate_wind_statistics"),
                  Try([I("folium_map") EXCEPT !.html = Some(File("folium_html", sfx))],
                      "all", 0, "error creating web interactive map")>>

\* interactive_map.check_required_files and interactive_map.main, lines 692-723
\* and 937-982
ImapMain(o, e) ==
    IF ~Exists(e.boundary) \/ ~Exists(e.wind) \/ ~Exists(e.provinces)
    THEN <<Say("data files not found")>>
    ELSE (IF e.folium THEN <<>> ELSE <<Say("folium is not installed")>>) \o
         (IF o.list_regions THEN ListRegions(e)
          ELSE IF o.workflow THEN <<I("workflow_chart")>>
          ELSE CreateInteractiveMap(o.region, o.points, e))

Script ==
    CASE prog = "vw_main" -> VwMain(opts, env)
      [] prog = "demo_main" -> DemoMain(opts, env)
      [] prog = "imap_main" -> ImapMain(opts, env)
      [] prog = "imap_call" -> CreateInteractiveMap(opts.region, opts.points, env)
      [] OTHER -> <<>>

\* interactive_map.create_interactive_map, lines 129-514: the folium map of
\* the cells, written to the results directory and copied to the root
folium_map(html_output) ==
    LET clean == SelectSeq(Val(voronoi_polygons).rows, LAMBDA r : ~r.geometry.null)
    IN  IF IsNone(voronoi_polygons)
        THEN /\ said' = said \cup {"voronoi data not found"}
             /\ last' = [op |-> "folium_map", exc |-> "", ret |-> None]
             /\ UNCHANGED <<catchments, demdata, selected_region, province_data,
                            voronoi_polygons, rng, nextOid, files, memo>>
        ELSE IF Len(clean) = 0
        THEN /\ said' = said \cup {"no valid voronoi data"}
             /\ last' = [op |-> "folium_map", exc |-> "", ret |-> None]
             /\ UNCHANGED <<catchments, demdata, selected_region, province_data,
                            voronoi_polygons, rng, nextOid, files, memo>>
        ELSE IF env.plot_fault = "fm_build" THEN Raises("folium_map", "PlotError")
        ELSE IF env.plot_fault = "fm_copy"      \* lines 486-493: open(root_path, 'w') raises
        THEN /\ files' = files \cup {Val(html_output)}
             /\ last' = [op |-> "folium_map", exc |-> "PlotError",
                         html |-> Some("enhanced_html"), copy |-> None]
             /\ UNCHANGED <<catchments, demdata, selected_region, province_data,
                            voronoi_polygons, rng, nextOid, memo, said>>
        ELSE /\ files' = files \cup {Val(html_output),
                                     File("folium_html_copy", Val(html_output).region)}
             /\ said' = said \cup {"web interactive map saved"}
             /\ last' = [op |-> "folium_map", exc |-> "", ret |-> html_output,
                         html |-> Some("enhanced_html"), copy |-> Some("enhanced_html")]
             /\ UNCHANGED <<catchments, demdata, selected_region, province_data,
                            voronoi_polygons, rng, nextOid, memo>>

\* interactive_map.create_workflow_chart: a picture of the workflow
workflow_chart ==
    /\ files' = files \cup {File("workflow_png", <<>>)}
    /\ last' = [op |-> "workflow_chart", exc |-> ""]
    /\ UNCHANGED <<catchments, demdata, selected_region, province_data,
                   voronoi_polygons, rng, nextOid, memo, said>>

-----------------------------------------------------------------------------
(* Running a script: one step per call.                                    *)

Running == prog # "api" /\ status = "running" /\ pc <= Len(Script)

\* what the script does once the call ins has ended with last'.exc
After(ins) ==
    /\ trace' = Append(trace, ins.call)
    /\ UNCHANGED <<env, prog, opts>>
    /\ IF last'.exc = ""
       THEN /\ pc' = pc + 1
            /\ UNCHANGED <<status, shown>>
       ELSE IF ins.catch = "all"
       THEN /\ pc' = pc + 1 + ins.skip
            /\ shown' = Append(shown, ins.msg)
            /\ UNCHANGED status
       ELSE IF ins.catch = "ValueError" /\ last'.exc = "ValueError"
       THEN /\ shown' = Append(shown, ins.msg)
            /\ status' = "returned"
            /\ UNCHANGED pc
       ELSE /\ shown' = Append(shown, "traceback")
            /\ status' = "crashed"
            /\ UNCHANGED pc

Do(call, method(_)) ==
    /\ Running
    /\ Script[pc].call = call
    /\ method(Script[pc])
    /\ After(Script[pc])

DoNew == Do("new", LAMBDA ins : new_analyzer)
DoLoadData == Do("load_data", LAMBDA ins : load_data(env.boundary, env.wind))
DoLoadProvinces == Do("load_provinces", LAMBDA ins : load_provinces(env.provinces))
DoSelectRegion == Do("select_region", LAMBDA ins : select_region(ins.name))
DoListRegions == Do("list_available_regions", LAMBDA ins : list_available_regions)
DoVisualizeWindData == Do("visualize_wind_data", LAMBDA ins : visualize_wind_data(ins.png))
DoCreateVoronoi ==
    Do("create_voronoi_polygons", LAMBDA ins : create_voronoi_polygons(ins.n, ins.rs))
DoCalculate ==
    Do("calculate_wind_statistics", LAMBDA ins : calculate_wind_statistics(None))
DoSaveResults == Do("save_results", LAMBDA ins : save_results(ins.min))
DoVisualizeHigh ==
    Do("visualize_high_potential_areas",
       LAMBDA ins : visualize_high_potential_areas(ins.min, ins.png))
DoExport ==
    Do("export_detailed_statistics", LAMBDA ins : export_detailed_statistics(ins.min))
DoInteractive ==
    Do("create_interactive_visualization",
       LAMBDA ins : create_interactive_visualization(ins.min, None, ins.html))
DoFoliumMap == Do("folium_map", LAMBDA ins : folium_map(ins.html))
DoWorkflowChart == Do("workflow_chart", LAMBDA ins : workflow_chart)

\* print(...)
DoPrint ==
    /\ Running
    /\ Script[pc].call = "print"
    /\ shown' = Append(shown, Script[pc].msg)
    /\ pc' = pc + 1
    /\ UNCHANGED <<env, catchments, demdata, selected_region, province_data,
                   voronoi_polygons, rng, nextOid, files, last, memo, prog, opts,
                   status, trace, said>>

\* the end of the script
DoReturn ==
    /\ prog # "api" /\ status = "running" /\ pc > Len(Script)
    /\ status' = "returned"
    /\ UNCHANGED <<env, catchments, demdata, selected_region, province_data,
                   voronoi_polygons, rng, nextOid, files, last, memo, prog, pc, opts,
                   trace, said, shown>>

-----------------------------------------------------------------------------
(* The worlds a run can find itself in.                                    *)

\* scipy answers a bounded region for every generator
NoOdd == [x |-> 0 - 1, kind |-> "bounded"]

\* or an unbounded or empty one for the generators at one abscissa
Oddities == {NoOdd} \cup {[x |-> 2 * c + 1, kind |-> k] :
                            c \in {0}, k \in {"unbounded", "empty"}}

RandomStates == {DefaultRandomState, 7}

RegionNames == {<<11, 2>>, <<3>>, <<9>>}

Vietnam == [rows |-> OneRow(Cols), crs |-> "EPSG:4326", fault |-> "none"]

World == [boundary |-> Some(Vietnam), wind |-> Some(Raster),
          provinces |-> Some(ProvinceFile), mpld3 |-> TRUE, folium |-> TRUE,
          plot_fault |-> "none", qhull_odd |-> NoOdd]

NoOpts == [provinces |-> FALSE, region |-> None, no_plots |-> FALSE,
           list_regions |-> FALSE, workflow |-> FALSE, points |-> 0, min |-> 0,
           choice |-> "", sub_choice |-> ""]

Fresh ==
    /\ catchments = None
    /\ demdata = None
    /\ selected_region = None
    /\ province_data = None
    /\ voronoi_polygons = None
    /\ nextOid = 1
    /\ files = {}
    /\ last = [op |-> "", exc |-> ""]
    /\ memo = None
    /\ pc = 1
    /\ status = "running"
    /\ trace = <<>>
    /\ said = {}
    /\ shown = <<>>

\* scipy's oddity shows on the whole map, whatever GEOS does with the data
Worlds ==
    {[World EXCEPT !.boundary = Some(b)] : b \in BoundaryFiles}
    \cup {[World EXCEPT !.boundary = Some([Vietnam EXCEPT !.fault = f]), !.qhull_odd = o] :
            f \in {"none", "union", "union_clip"}, o \in Oddities \ {NoOdd}}

\* the analyzer used as a library: any boundary data set, any calls
Init ==
    /\ Fresh
    /\ prog = "api"
    /\ opts = NoOpts
    /\ rng \in 0..(RngMod - 1)
    /\ env \in Worlds

Frozen == UNCHANGED <<env, prog, pc, opts, status, trace, shown>>

\* the data are loaded once
ApiLoadData ==
    /\ IsNone(catchments)
    /\ load_data(env.boundary, env.wind)
    /\ Frozen

ApiCreateVoronoi ==
    /\ \E n \in 1..MaxN, rs \in RandomStates : create_voronoi_polygons(n, rs)
    /\ Frozen

ApiCalculate ==
    /\ ~HasStatistics
    /\ calculate_wind_statistics(None)
    /\ Frozen

Next ==
    \/ ApiLoadData
    \/ ApiCreateVoronoi
    \/ ApiCalculate

Spec == Init /\ [][Next]_vars

\* the three programs, with their options and the files they find
VwOpts ==
    {[NoOpts EXCEPT !.provinces = p, !.region = r, !.no_plots = np,
                    !.list_regions = l, !.points = ScriptPoints, !.min = m] :
        p \in BOOLEAN, r \in {None} \cup {Some(x) : x \in RegionNames},
        np \in BOOLEAN, l \in BOOLEAN, m \in {60, 90}}

DemoOpts ==
    {[NoOpts EXCEPT !.choice = c] : c \in {"1", "3", "0", "9"}}
    \cup {[NoOpts EXCEPT !.choice = "2", !.region = Some(r)] : r \in RegionNames}
    \cup {[NoOpts EXCEPT !.choice = "4", !.sub_choice = "1"]}
    \cup {[NoOpts EXCEPT !.choice = "4", !.sub_choice = "2", !.region = Some(r)] :
            r \in RegionNames}

ImapOpts ==
    {[NoOpts EXCEPT !.region = r, !.list_regions = l, !.workflow = w,
                    !.points = ScriptPoints] :
        r \in {None} \cup {Some(x) : x \in RegionNames}, l \in BOOLEAN, w \in BOOLEAN}

ScriptWorlds ==
    {[World EXCEPT !.boundary = b, !.wind = w, !.provinces = p] :
        b \in {None, Some(Vietnam)}, w \in {None, Some(Raster)},
        p \in {None, Some(ProvinceFile)}}
    \cup {[World EXCEPT !.plot_fault = f] : f \in PlotFaults}
    \cup {[World EXCEPT !.mpld3 = FALSE], [World EXCEPT !.folium = FALSE]}

InitScripts ==
    /\ Fresh
    /\ rng \in {0}
    /\ env \in ScriptWorlds
    /\ \/ prog = "vw_main" /\ opts \in VwOpts
       \/ prog = "demo_main" /\ opts \in DemoOpts
       \/ prog = "imap_main" /\ opts \in ImapOpts
       \/ prog = "imap_call" /\ opts \in {o \in ImapOpts : ~o.list_regions /\ ~o.workflow}

NextScripts ==
    \/ DoNew
    \/ DoLoadData
    \/ DoLoadProvinces
    \/ DoSelectRegion
    \/ DoListRegions
    \/ DoVisualizeWindData
    \/ DoCreateVoronoi
    \/ DoCalculate
    \/ DoSaveResults
    \/ DoVisualizeHigh
    \/ DoExport
    \/ DoInteractive
    \/ DoFoliumMap
    \/ DoWorkflowChart
    \/ DoPrint
    \/ DoReturn

SpecScripts == InitScripts /\ [][NextScripts]_vars

\* the analyzer called by a program of its own, any method at any time with
\* any argument; pc counts the calls
CallWorlds ==
    {[World EXCEPT !.provinces = Some(ProvinceFileWith(c))] : c \in NameColumns}
    \cup {[World EXCEPT !.boundary = Some([rows |-> TwoRows({0}, {W - 1}),
                                           crs |-> "EPSG:4326", fault |-> "none"])]}

\* min_wind_speed, in tenths of m/s: the mean of some cells, above that of
\* others and below that of the rest
Thresholds == {55}

InitCalls ==
    /\ Fresh
    /\ prog = "calls"
    /\ opts = NoOpts
    /\ rng \in {0}
    /\ env \in CallWorlds

Counted ==
    /\ pc <= MaxCalls
    /\ pc' = pc + 1
    /\ UNCHANGED <<env, prog, opts, status, trace, shown>>

CallLoadData == IsNone(catchments) /\ load_data(env.boundary, env.wind) /\ Counted
CallLoadProvinces == load_provinces(env.provinces) /\ Counted
CallSelectRegion ==
    /\ \E name \in {None} \cup {Some(x) : x \in RegionNames \cup {<<2>>}} :
            select_region(name)
    /\ Counted
CallListRegions == list_available_regions /\ Counted
CallCreateVoronoi == create_voronoi_polygons(MaxN, DefaultRandomState) /\ Counted
CallCalculate == calculate_wind_statistics(None) /\ Counted
CallFilter == (\E m \in Thresholds : filter_high_potential_areas(m)) /\ Counted
CallSaveResults == (\E m \in Thresholds : save_results(m)) /\ Counted
CallExport == (\E m \in Thresholds : export_detailed_statistics(m)) /\ Counted
CallVisualizeWindData == visualize_wind_data(None) /\ Counted
CallVisualizeHigh ==
    /\ \E m \in Thresholds : visualize_high_potential_areas(m, None)
    /\ Counted
CallInteractive ==
    /\ \E m \in Thresholds : create_interactive_visualization(m, None, None)
    /\ Counted

NextCalls ==
    \/ CallLoadData
    \/ CallLoadProvinces
    \/ CallSelectRegion
    \/ CallListRegions
    \/ CallCreateVoronoi
    \/ CallCalculate
    \/ CallFilter
    \/ CallSaveResults
    \/ CallExport
    \/ CallVisualizeWindData
    \/ CallVisualizeHigh
    \/ CallInteractive

SpecCalls == InitCalls /\ [][NextCalls]_vars

\* calculate_wind_statistics on a tessellation of any number of cells: cell
\* k lies over one column, the next cell over the next column, and the index
\* labels are those of create_voronoi_polygons, with or without a first cell
\* that cleaning has dropped
TessellationOf(n, first, dropped) ==
    [rows |-> [k \in 1..n |->
                 [idx |-> k - 1 + dropped, name |-> k - 1 + dropped,
                  geometry |-> Geom({(first + k) % W}),
                  wind_mean |-> NaN, wind_std |-> NaN]],
     cols |-> {"geometry", "name"}]

InitBatches ==
    /\ selected_region = None
    /\ province_data = None
    /\ nextOid = 1
    /\ files = {}
    /\ last = [op |-> "create_voronoi_polygons", exc |-> ""]
    /\ memo = None
    /\ pc = 1
    /\ status = "running"
    /\ trace = <<>>
    /\ said = {}
    /\ shown = <<>>
    /\ prog = "batches"
    /\ opts = NoOpts
    /\ rng \in {0}
    /\ env \in {World}
    /\ \E n \in 0..MaxCells, first \in Cols, dropped \in {0, 1} :
          /\ catchments = Some([rows |-> Vietnam.rows, crs |-> Vietnam.crs,
                                fault |-> Vietnam.fault, oid |-> 0])
          /\ demdata = Some(Raster)
          /\ voronoi_polygons = Some(TessellationOf(n, first, dropped))

BatchCalculate ==
    /\ last.op # "calculate_wind_statistics"
    /\ calculate_wind_statistics(None)
    /\ Frozen

NextBatches == BatchCalculate

SpecBatches == InitBatches /\ [][NextBatches]_vars

-----------------------------------------------------------------------------
(* Properties.                                                             *)

\* the last call was create_voronoi_polygons and it got as far as sampling
Sampled == last.op = "create_voronoi_polygons" /\ "sample" \in DOMAIN last

Created == Sampled /\ last.exc = ""

\* the columns of the boundary in use
BoundaryCells(rows) == UNION {rows[i].geometry.cells : i \in 1..Len(rows)}

NoRepeat(s) == \A i, j \in 1..Len(s) : s[i] = s[j] => i = j

\* C1 as stated: after calculate_wind_statistics the frame has as many rows as
\* before, every row has a geometry, and each row carries the mean and the
\* standard deviation of the pixels under its own geometry, whatever the index
\* of the frame was.
C1_StatisticsStayWithTheirRows ==
    (last.op = "calculate_wind_statistics" /\ last.exc = "" /\ ~IsNone(last.raster))
    => LET after == Val(voronoi_polygons).rows
           before == last.before
       IN  /\ Len(after) = Len(before)
           /\ \A k \in 1..Len(after) : ~after[k].geometry.null
           /\ \A k \in 1..Len(after) : k <= Len(before) =>
                /\ after[k].geometry = before[k].geometry
                /\ after[k].wind_mean = zonal_stats(before[k].geometry, Val(last.raster)).mean
                /\ after[k].wind_std = zonal_stats(before[k].geometry, Val(last.raster)).std

\* C2 as stated: after create_voronoi_polygons every stored cell lies inside
\* the union of the boundary geometries, is not empty and is valid, on every
\* path through the clipping step.
C2_CellsInsideBoundaryOnEveryPath ==
    Created => \A k \in 1..Len(last.rows) :
        /\ last.rows[k].geometry.cells \subseteq BoundaryCells(last.boundary.rows)
        /\ last.rows[k].geometry.cells # {}
        /\ last.rows[k].geometry.valid

\* C2, amended: every stored cell is not empty and is valid; it lies inside
\* the union of the boundary geometries on every path of the clipping step
\* but the one where the union or intersection and gpd.clip both raise, on
\* which the cells are stored as they were built.
C2_CellsInsideBoundaryWhenClipped ==
    Created => \A k \in 1..Len(last.rows) :
        /\ last.path # "unclipped" =>
              last.rows[k].geometry.cells \subseteq BoundaryCells(last.boundary.rows)
        /\ last.path = "unclipped" => last.rows[k] \in Range(last.regions)
        /\ last.rows[k].geometry.cells # {}
        /\ last.rows[k].geometry.valid

\* a call whose cells were cut: gpd.clip did it after the union had raised,
\* and a region that reached beyond the boundary came out inside it
C2_Witness ==
    /\ Created
    /\ last.path = "simple"
    /\ Len(last.rows) > 0
    /\ \E k \in 1..Len(last.regions) :
          ~(last.regions[k].geometry.cells \subseteq BoundaryCells(last.boundary.rows))

\* C3: every cell comes from one sampled seed that lies inside the buffered
\* boundary, no two cells from the same seed and none from a control point;
\* a seed whose region scipy reports empty or unbounded has no cell; there
\* are no more cells than seeds and no more seeds than num_points.
C3_CellsComeFromSeeds ==
    Created =>
        LET points == last.sample.points
            FromSeed(row) ==
                /\ row.name + 1 \in 1..Len(points)
                /\ \E i \in 1..Len(last.buffered) :
                      contains(last.buffered[i].geometry, points[row.name + 1])
                /\ ~(env.qhull_odd.kind # "bounded" /\ env.qhull_odd.x = points[row.name + 1].x)
        IN  /\ Len(points) <= last.num_points
            /\ Len(last.rows) <= Len(points)
            /\ Len(last.regions) <= Len(points)
            /\ NoRepeat([k \in 1..Len(last.rows) |-> last.rows[k].name])
            /\ \A k \in 1..Len(last.rows) : FromSeed(last.rows[k])
            /\ \A k \in 1..Len(last.regions) : FromSeed(last.regions[k])

\* a call that stored two cells or more and left out the region of a seed
\* because scipy reported it empty or unbounded
C3_Witness ==
    /\ Created
    /\ Len(last.rows) >= 2
    /\ Len(last.rows) < Len(last.sample.points)
    /\ \E g \in 1..Len(last.sample.points) :
          /\ env.qhull_odd.kind # "bounded"
          /\ env.qhull_odd.x = last.sample.points[g].x

\* C4 as stated: the sampling stage of create_voronoi_polygons(num_points = n)
\* ends with exactly n seed points, the grid supplying what the random rounds
\* did not find, so that the Voronoi construction always gets its n seeds.
C4_SamplingReachesNumPoints ==
    Sampled =>
        /\ Len(last.sample.points) = last.num_points
        /\ last.exc = ""

\* C5: sampling ends: at most max_attempts rounds, each begun only while
\* points were missing, never more than num_points points accepted by the
\* rounds or by the grid, and the grid tests each of its points at most once.
C5_SamplingIsBounded ==
    Sampled =>
        LET smp == last.sample
        IN  /\ smp.attempts <= max_attempts
            /\ Len(smp.progress) = smp.attempts
            /\ \A r \in 1..smp.attempts : smp.progress[r] < last.num_points
            /\ smp.attempts < max_attempts => smp.random_found = last.num_points
            /\ smp.random_found <= last.num_points
            /\ smp.found <= last.num_points
            /\ NoRepeat(smp.grid_tested)
            /\ Len(smp.grid_tested) <= smp.grid_size
            /\ ~smp.fallback => smp.grid_tested = <<>>

\* a call that went through all max_attempts rounds without its points and
\* then tested the grid to its last point
C5_Witness ==
    /\ Sampled
    /\ last.num_points > 1
    /\ last.sample.attempts = max_attempts
    /\ last.sample.fallback
    /\ Len(last.sample.grid_tested) = last.sample.grid_size

SameCall(a, b) ==
    /\ a.boundary = b.boundary
    /\ a.num_points = b.num_points
    /\ a.random_state = b.random_state

\* C6: a call of create_voronoi_polygons with the boundary, num_points and
\* random_state of an earlier call has the earlier call's seed points, in
\* order, and its cells and their names, whatever was called in between.
C6_SameInputsSameCells ==
    (Sampled /\ ~IsNone(memo) /\ SameCall(last, Val(memo)))
    => /\ last.sample.points = Val(memo).points
       /\ last.rows = Val(memo).rows
       /\ last.exc = Val(memo).exc

\* a later call with the inputs of the first one, made when the generator was
\* not in the state random_state seeds it to, that drew random seeds and stored
\* cells
C6_Witness ==
    /\ Created
    /\ last.again
    /\ last.reseeded
    /\ SameCall(last, Val(memo))
    /\ last.sample.random_found > 0
    /\ Len(last.rows) > 0

-----------------------------------------------------------------------------
(* Properties of the scripts.                                              *)

Loads == {"load_data", "load_provinces"}
Tessellation == {"create_voronoi_polygons"}
Aggregation == {"calculate_wind_statistics"}
Exports == {"save_results", "export_detailed_statistics"}
InputPlots == {"visualize_wind_data"}
ResultPlots == {"visualize_high_potential_areas", "create_interactive_visualization",
                "folium_map"}

\* calls i < j were made on the same analyzer
SameAnalyzer(i, j) == \A k \in (i + 1)..j : trace[k] # "new"

\* some call of A came before some call of B on the same analyzer
Precedes(A, B) ==
    \E i, j \in 1..Len(trace) :
        i < j /\ trace[i] \in A /\ trace[j] \in B /\ SameAnalyzer(i, j)

\* every call of B came after a call of A on the same analyzer
Follows(B, A) ==
    \A j \in 1..Len(trace) : trace[j] \in B =>
        \E i \in 1..(j - 1) : trace[i] \in A /\ SameAnalyzer(i, j)

\* C7 as stated: every driver calls the analyzer in the order load, select
\* region, tessellate, aggregate, export, visualize: no tessellation before
\* loading, no aggregation before tessellation, no export before aggregation
\* and no visualize call before an export call.
C7_LoadSelectTessellateAggregateExportVisualize ==
    /\ ~Precedes(Tessellation, Loads)
    /\ ~Precedes(Tessellation, {"select_region"})
    /\ ~Precedes(Aggregation, Tessellation)
    /\ ~Precedes(Exports, Aggregation)
    /\ ~Precedes(InputPlots \cup ResultPlots, Exports)

\* C7, amended: every driver loads, selects the region, tessellates,
\* aggregates and exports in this order, each step after the one it needs;
\* the plot of the wind data is made after loading and before tessellation,
\* the plots of the results after aggregation, the plot of the high potential
\* areas between save_results and export_detailed_statistics and the
\* interactive one after the exports.
C7_PipelineOrderWithPlotsInBetween ==
    /\ ~Precedes(Tessellation, Loads)
    /\ ~Precedes(Tessellation, {"select_region"})
    /\ ~Precedes(Aggregation, Tessellation)
    /\ ~Precedes(Exports, Aggregation)
    /\ Follows(Tessellation, {"load_data"})
    /\ Follows({"select_region"}, {"load_provinces"})
    /\ Follows(Aggregation, Tessellation)
    /\ Follows(Exports, Aggregation)
    /\ Follows(InputPlots, {"load_data"})
    /\ ~Precedes(Tessellation, InputPlots)
    /\ Follows(ResultPlots, Aggregation)
    /\ ~Precedes({"visualize_high_potential_areas"}, {"save_results"})
    /\ ~Precedes({"export_detailed_statistics"}, {"visualize_high_potential_areas"})
    /\ ~Precedes({"create_interactive_visualization"}, Exports)

\* a run of vietnamwind.main for a region that made every call of the pipeline
\* and every plot and returned
C7_Witness ==
    /\ prog = "vw_main"
    /\ status = "returned"
    /\ {"load_data", "load_provinces", "select_region", "visualize_wind_data",
        "create_voronoi_polygons", "calculate_wind_statistics", "save_results",
        "visualize_high_potential_areas", "export_detailed_statistics",
        "create_interactive_visualization"} \subseteq Range(trace)

\* the run asks for a region
RegionRequested ==
    CASE prog = "demo_main" ->
            opts.choice = "2" \/ (opts.choice = "4" /\ opts.sub_choice = "2")
      [] OTHER -> ~IsNone(opts.region)

\* a file the run needs is not there
MissingInput ==
    \/ IsNone(env.boundary)
    \/ IsNone(env.wind)
    \/ RegionRequested /\ (IsNone(env.provinces) \/ (prog = "vw_main" /\ ~opts.provinces))

Diagnostics == {"traceback", "input data files not found", "data files not found",
                "province file not found", "need provinces file"}

C8_WitnessDemo ==
    /\ prog = "demo_main"
    /\ IsNone(env.boundary)
    /\ status = "returned"

\* C9 as stated: an exception raised in a plotting step does not end the run.
C9_PlottingFailureIsNotFatal ==
    last.exc = "PlotError" => status # "crashed"

\* the interactive page cannot be made
NoHtml ==
    /\ last.op = "create_interactive_visualization"
    /\ "branch" \in DOMAIN last
    /\ last.branch \in {"no_mpld3", "no_cells", "no_html"}

HtmlFiles == {f \in files : f.kind = "interactive_html"}

\* C10 as stated: when mpld3 is missing, no cell passes the threshold or the
\* conversion to HTML raises, create_interactive_visualization returns None
\* and raises nothing, no HTML file is written and the run goes on; success
\* is never reported for an HTML file that was not written.
C10_NoHtmlNoSuccess ==
    /\ NoHtml => /\ last.exc = ""
                 /\ last.ret = None
                 /\ HtmlFiles = {}
                 /\ status # "crashed"
    /\ "interactive HTML file saved" \in said => HtmlFiles # {}
    /\ "created interactive map" \in Range(shown) => HtmlFiles # {}

\* the steps that --list-regions is to leave out
AnalysisSteps ==
    {"select_region"} \cup Tessellation \cup Aggregation \cup Exports
    \cup InputPlots \cup ResultPlots \cup {"workflow_chart"}

\* C11 as stated: with --list-regions vietnamwind.main and interactive_map.main
\* list the regions and exit: no region selection, tessellation, statistics,
\* export or plotting step is executed, whatever the other flags are, and a
\* run that finds its files and returns has printed the list.
C11_ListRegionsListsAndExits ==
    (prog \in {"vw_main", "imap_main"} /\ opts.list_regions) =>
        /\ Range(trace) \cap AnalysisSteps = {}
        /\ "analysis completed" \notin Range(shown)
        /\ (status = "returned" /\ env.boundary # None /\ env.wind # None
              /\ env.provinces # None)
            => "available regions" \in Range(shown)

Plotting == InputPlots \cup ResultPlots

\* C12: vietnamwind.main with --region and without --provinces calls none of
\* select_region, create_voronoi_polygons, calculate_wind_statistics,
\* save_results, export_detailed_statistics or a plotting method and writes no
\* file; when it finds its input files it prints the error and returns.
C12_RegionWithoutProvincesReturns ==
    (prog = "vw_main" /\ ~IsNone(opts.region) /\ ~opts.provinces) =>
        /\ Range(trace) \cap AnalysisSteps = {}
        /\ files = {}
        /\ "analysis completed" \notin Range(shown)
        /\ status = "returned" => "need provinces file" \in Range(shown)
        /\ status = "crashed" => (IsNone(env.boundary) \/ IsNone(env.wind))

\* the run loaded its data, printed the error and returned
C12_Witness ==
    /\ prog = "vw_main"
    /\ ~IsNone(opts.region)
    /\ ~opts.provinces
    /\ ~IsNone(catchments)
    /\ status = "returned"
    /\ "need provinces file" \in Range(shown)

\* the run of vietnamwind.main went through the whole pipeline
Completed == prog = "vw_main" /\ "analysis completed" \in Range(shown)

VwPlots == {"visualize_wind_data", "visualize_high_potential_areas",
            "create_interactive_visualization"}

\* C13: with --no-plots vietnamwind.main never calls visualize_wind_data,
\* visualize_high_potential_areas or create_interactive_visualization, and a
\* run that completes has called create_voronoi_polygons,
\* calculate_wind_statistics, save_results and export_detailed_statistics;
\* without --no-plots a run that completes has called all three plotting
\* methods.
C13_NoPlotsSkipsOnlyThePlots ==
    /\ (prog = "vw_main" /\ opts.no_plots) => Range(trace) \cap VwPlots = {}
    /\ Completed =>
         {"create_voronoi_polygons", "calculate_wind_statistics", "save_results",
          "export_detailed_statistics"} \subseteq Range(trace)
    /\ (Completed /\ ~opts.no_plots) => VwPlots \subseteq Range(trace)

\* a run with --no-plots that completed and wrote its result files
C13_Witness ==
    /\ Completed
    /\ opts.no_plots
    /\ files # {}

\* a run without --no-plots that completed
C13_WitnessPlots ==
    /\ Completed
    /\ ~opts.no_plots
    /\ VwPlots \subseteq Range(trace)

-----------------------------------------------------------------------------
(* Properties of the analyzer called in any order.                         *)

\* the whole loaded boundary is the region of analysis
WholeSelected == ~IsNone(catchments) /\ selected_region = catchments

\* the last call was select_region(None)
SelectedNone ==
    last.op = "select_region" /\ last.exc = "" /\ "region_name" \notin DOMAIN last

\* C14: on an analyzer whose data were loaded once, select_region(None) leaves
\* selected_region the catchments object itself, and while it is,
\* create_voronoi_polygons samples and clips with the rows of the whole
\* boundary, every file that save_results or export_detailed_statistics
\* writes carries no region suffix, and the titles are those of Vietnam.
C14_SelectNoneIsTheWholeBoundary ==
    [][/\ SelectedNone' => selected_region' = catchments'
       /\ WholeSelected =>
            /\ (last'.op = "create_voronoi_polygons" /\ "boundary" \in DOMAIN last')
                 => last'.boundary.rows = Val(catchments).rows
            /\ \A f \in files' \ files : f.region = <<>>
            /\ "title" \in DOMAIN last' => last'.title = None]_vars

\* select_region(None) was called with provinces loaded, and save_results
\* wrote the files of the whole boundary
C14_Witness ==
    /\ WholeSelected
    /\ ~IsNone(province_data)
    /\ last.op = "save_results"
    /\ last.exc = ""
    /\ File("all_kml", <<>>) \in files

\* the last call was select_region(name) and it returned
SelectedByName ==
    last.op = "select_region" /\ last.exc = "" /\ "region_name" \in DOMAIN last

\* the provinces whose name is the name asked for, whatever the case
ExactMatches(rows, name) == {i \in 1..Len(rows) : Lower(rows[i].name) = Lower(name)}

\* the provinces whose name holds the name asked for, whatever the case
PartMatches(rows, name) ==
    {i \in 1..Len(rows) : Substring(Lower(name), Lower(rows[i].name))}

\* C15: after select_region(name) returned, selected_region holds exactly one
\* row: the first province in file order among those whose name equals name
\* case-insensitively, or, only when there is none, the first among those
\* whose name contains it.
C15_SelectsTheFirstBestMatch ==
    SelectedByName =>
        LET rows == Val(province_data).rows
            exact == ExactMatches(rows, last.region_name)
            part == PartMatches(rows, last.region_name)
            chosen == IF exact # {} THEN exact ELSE part
        IN  /\ chosen # {}
            /\ Len(Val(selected_region).rows) = 1
            /\ Val(selected_region).rows[1] = rows[Min(chosen)]

\* two provinces match exactly and an earlier one holds the name without
\* being equal to it
C15_Witness ==
    /\ SelectedByName
    /\ LET rows == Val(province_data).rows
       IN  /\ Cardinality(ExactMatches(rows, last.region_name)) > 1
           /\ Min(PartMatches(rows, last.region_name))
                < Min(ExactMatches(rows, last.region_name))

\* no province matches exactly and several hold the name
C15_WitnessPart ==
    /\ SelectedByName
    /\ LET rows == Val(province_data).rows
       IN  /\ ExactMatches(rows, last.region_name) = {}
           /\ Cardinality(PartMatches(rows, last.region_name)) > 1

\* the last call returned the high potential areas or drew them
Highlighted ==
    /\ last.op \in {"filter_high_potential_areas", "visualize_high_potential_areas",
                    "create_interactive_visualization"}
    /\ last.exc = ""
    /\ "min" \in DOMAIN last

\* C16 as stated: the cells that filter_high_potential_areas returns and that
\* visualize_high_potential_areas and create_interactive_visualization
\* highlight are exactly the cells whose wind_mean is at least min_wind_speed;
\* a cell whose wind_mean equals min_wind_speed is one of them.
C16_HighPotentialIsAtLeastTheMinimum ==
    Highlighted =>
        LET rows == Val(voronoi_polygons).rows
            got == IF last.op = "filter_high_potential_areas" THEN last.ret
                   ELSE last.shown
        IN  \A i \in 1..Len(rows) :
                rows[i] \in Range(got)
                    <=> (rows[i].wind_mean # NaN /\ rows[i].wind_mean >= last.min)

\* no statistics have been calculated for the cells there are
NoStatistics ==
    IsNone(voronoi_polygons) \/ "wind_mean" \notin Val(voronoi_polygons).cols

\* the call made in this step raised ValueError and left the analyzer and the
\* files as they were
RefusedWithValueError ==
    /\ last'.exc = "ValueError"
    /\ UNCHANGED <<catchments, demdata, selected_region, province_data,
                   voronoi_polygons, files>>

\* C17: create_voronoi_polygons and visualize_wind_data raise ValueError
\* before load_data, calculate_wind_statistics raises it before
\* create_voronoi_polygons, and filter_high_potential_areas,
\* visualize_high_potential_areas and export_detailed_statistics raise it
\* before calculate_wind_statistics; the analyzer's fields are unchanged and
\* no file is written.
C17_MethodOrderIsEnforced ==
    [][/\ (IsNone(catchments) /\ IsNone(demdata)
             /\ last'.op \in {"create_voronoi_polygons", "visualize_wind_data"})
          => RefusedWithValueError
       /\ (IsNone(voronoi_polygons) /\ last'.op = "calculate_wind_statistics")
          => RefusedWithValueError
       /\ (NoStatistics
             /\ last'.op \in {"filter_high_potential_areas",
                              "visualize_high_potential_areas",
                              "export_detailed_statistics"})
          => RefusedWithValueError]_vars

\* export_detailed_statistics was refused on an analyzer that has cells and
\* no statistics
C17_Witness ==
    /\ ~IsNone(voronoi_polygons)
    /\ NoStatistics
    /\ last.op = "export_detailed_statistics"
    /\ last.exc = "ValueError"
    /\ files = {}

\* create_voronoi_polygons was refused on an analyzer that has a region and
\* no boundary
C17_WitnessCreate ==
    /\ IsNone(catchments)
    /\ ~IsNone(selected_region)
    /\ last.op = "create_voronoi_polygons"
    /\ last.exc = "ValueError"

\* C18 as stated: when calculate_wind_statistics has not been run, with or
\* without cells, save_results raises ValueError and writes none of its
\* three files.
C18_SaveResultsNeedsStatistics ==
    [][(NoStatistics /\ last'.op = "save_results")
          => /\ last'.exc = "ValueError"
             /\ files' = files]_vars

\* the name of row i of the province file: column 'name' if the file has it,
\* else 'NAME_1', else 'Name'
NameInFile(file, i) ==
    IF "name" \in file.cols THEN file.rows[i].name
    ELSE IF "NAME_1" \in file.cols THEN file.rows[i].NAME_1
    ELSE file.rows[i].Name

\* how often a name occurs in a list
Count(names, x) == Cardinality({i \in 1..Len(names) : names[i] = x})

\* C19: after load_provinces returned, province_data has a 'name' column that
\* holds for each row the file's 'name', else its 'NAME_1', else its 'Name',
\* with the other columns as in the file; list_available_regions then
\* returns these names, each as often as it occurs, in ascending order, and
\* changes neither the analyzer nor the files.
C19_ProvinceNamesLoadedAndListed ==
    [][/\ (last'.op = "load_provinces" /\ last'.exc = "") =>
            LET file == Val(env.provinces)
                data == Val(province_data')
            IN  /\ "name" \in data.cols
                /\ Len(data.rows) = Len(file.rows)
                /\ \A i \in 1..Len(file.rows) :
                     /\ data.rows[i].name = NameInFile(file, i)
                     /\ data.rows[i].NAME_1 = file.rows[i].NAME_1
                     /\ data.rows[i].Name = file.rows[i].Name
       /\ (last'.op = "list_available_regions" /\ last'.exc = "") =>
            LET rows == Val(province_data).rows
                names == [i \in 1..Len(rows) |-> rows[i].name]
                ret == last'.ret
            IN  /\ Len(ret) = Len(names)
                /\ \A x \in Range(names) \cup Range(ret) : Count(ret, x) = Count(names, x)
                /\ \A i, j \in 1..Len(ret) : i < j => ~StrLess(ret[j], ret[i])
                /\ UNCHANGED <<catchments, demdata, selected_region, province_data,
                               voronoi_polygons, files>>]_vars

\* the names came from 'NAME_1' of a file that also has 'Name', and the list
\* is not in file order
C19_Witness ==
    /\ last.op = "list_available_regions"
    /\ last.exc = ""
    /\ {"NAME_1", "Name"} \subseteq Val(env.provinces).cols
    /\ "name" \notin Val(env.provinces).cols
    /\ last.ret # [i \in 1..Len(Val(province_data).rows) |-> Val(province_data).rows[i].name]
    /\ last.ret[1] = Val(env.provinces).rows[1].NAME_1

\* a file with a 'name' column and the two others was loaded
C19_WitnessKept ==
    /\ last.op = "load_provinces"
    /\ last.exc = ""
    /\ {"name", "NAME_1", "Name"} \subseteq Val(env.provinces).cols

-----------------------------------------------------------------------------
(* Properties of interactive_map.create_interactive_map.                   *)

\* create_interactive_map is what runs, and the boundary and the raster are
\* there
MapCalled ==
    /\ ~IsNone(env.boundary)
    /\ ~IsNone(env.wind)
    /\ \/ prog = "imap_call"
       \/ prog = "imap_main" /\ ~IsNone(env.provinces)
            /\ ~opts.list_regions /\ ~opts.workflow

\* what create_interactive_map returns: html_path after the files are
\* written, None on every other way out
MapReturnValue ==
    IF last.op = "folium_map" /\ last.exc = "" THEN last.ret ELSE None

MapSuffix == IF IsNone(opts.region) THEN <<>> ELSE Slug(Val(opts.region))

\* C20 as stated: create_interactive_map does not raise when folium or the
\* province file is missing, the region is not found, no valid cell is left
\* or the building of the map raises; when it has returned, it has returned
\* the path results/vietnam_wind_folium<suffix>.html if and only if that
\* file and its copy in the working directory are both written, with the
\* same content, and None otherwise.
C20_MapPathIffSaved ==
    MapCalled =>
        /\ status # "crashed"
        /\ status = "returned" =>
             LET html == File("folium_html", MapSuffix)
                 copy == File("folium_html_copy", MapSuffix)
             IN  /\ MapReturnValue # None <=> {html, copy} \subseteq files
                 /\ MapReturnValue # None =>
                      /\ MapReturnValue = Some(html)
                      /\ last.html = last.copy
                      /\ last.html # None
                 /\ MapReturnValue = None => copy \notin files

-----------------------------------------------------------------------------
(* Properties of the batches of calculate_wind_statistics.                 *)

\* the last call was calculate_wind_statistics and it returned
Calculated == last.op = "calculate_wind_statistics" /\ last.exc = ""

\* C21: for every number N of cells, none included, the results that
\* calculate_wind_statistics collects from its batches of 50 have exactly N
\* entries, and entry k is the zonal statistics of the k-th cell in row order.
C21_BatchesCoverEveryCellOnceInOrder ==
    (Calculated /\ ~IsNone(last.raster)) =>
        /\ Len(last.results) = Len(last.before)
        /\ \A k \in 1..Len(last.before) :
             last.results[k] = zonal_stats(last.before[k].geometry, Val(last.raster))

\* two full batches and a partial one, of cells with different statistics
C21_Witness ==
    /\ Calculated
    /\ Len(last.before) > 2 * batch_size
    /\ Len(last.before) % batch_size # 0
    /\ Len(last.results) = Len(last.before)
    /\ last.results[batch_size] # last.results[batch_size + 1]

\* full batches only
C21_WitnessFull ==
    /\ Calculated
    /\ Len(last.before) = 2 * batch_size
    /\ Len(last.results) = 2 * batch_size

\* no cell at all
C21_WitnessNone ==
    /\ Calculated
    /\ Len(last.before) = 0
    /\ last.results = <<>>

====
